---- MODULE Spec2Model ----
(***************************************************************************)
(* The medical-intake chat backend of NeuraViaHack: the chat router        *)
(* (backend/app/routers/chat.py), the AI service (backend/app/             *)
(* ai_service.py) and the persistence client (backend/app/database.py).    *)
(*                                                                         *)
(* Each request handler is one atomic action (a request-scoped execution). *)
(* A text is a sequence of tokens; Python's `phrase in text` is membership *)
(* of the phrase among the tokens of the text.                             *)
(* (OverlapSpec alone lets send_message requests on a session overlap: it  *)
(* splits the handler after its limit check.)  A call to the store or to   *)
(* the Generation Provider that raises is an input of the action: the set  *)
(* F of the calls that fail in this request.  The reads of the transcript  *)
(* are taken to answer (the store's contract); every other call may fail.  *)
(***************************************************************************)
EXTENDS Integers, Sequences, FiniteSets, TLC

VARIABLES
    enabled,     \* AIService.enabled: a Gemini key was configured
    sessions,    \* table chat_sessions; a session's id is its index
    messages,    \* table chat_messages, per session id, in insertion order
    reports,     \* table patient_reports; a report's id is its index
    memories,    \* AIService.conversation_memories: key -> sequence of "human"/"ai"
    turn,        \* the structured turn result last returned by generate_structured_response
    resp,        \* the response of the last request
    raised,      \* the calls that raised during the last request
    failed,      \* the number of requests so far in which a call raised
    inflight,    \* per session, the send_message requests that passed the limit
                 \* check and have not gone on yet (overlapping requests)
    calc         \* a call of one of AIService's pure functions: its input and result

\* what a request reads and writes
system == <<enabled, sessions, messages, reports, memories, turn, resp, raised, failed, inflight>>

vars == <<enabled, sessions, messages, reports, memories, turn, resp, raised, failed, inflight, calc>>

(***************************************************************************)
(* Bounds of the model.                                                    *)
(***************************************************************************)
MaxSessions == 2
MaxFailedRequests == 1
MaxPatientMessages == 5
MaxLiveSessions == 1
MaxSessionlessMessages == 2
MaxOverlap == 2
MaxHistoryLen == 11
MaxReportLines == 3

(***************************************************************************)
(* Program constants.                                                      *)
(***************************************************************************)
MessageLimit == 10
ContextWindow == 8
MinReportMessages == 6
MinManualMessages == 4
CompletionThreshold == 75
CompleteStageScore == 85
SummaryStageScore == 75
GatheringStageScore == 50
ManualMinScore == 80
FinalReportScore == 100
MaxScore == 100

Users == {"u1"}
None == 0

\* variant: max written for min
Min_as_max(a, b) == IF a > b THEN a ELSE b

Min(a, b) == IF a < b THEN a ELSE b
Max(a, b) == IF a > b THEN a ELSE b

\* `phrase in text`
Has(text, phrase) == \E i \in 1..Len(text) : text[i] = phrase

\* [x for x in order if x in text]
RECURSIVE Matches(_, _)
Matches(order, text) ==
    IF order = <<>> THEN <<>>
    ELSE (IF Has(text, Head(order)) THEN <<Head(order)>> ELSE <<>>)
         \o Matches(Tail(order), text)

(***************************************************************************)
(* Texts the Generation Provider answers with.                             *)
(***************************************************************************)
\* what the provider answers in one turn: to the progress analysis, and the reply
ProviderAnswers ==
    { [ analysis |-> <<"no", "information", "yet">>,
        reply |-> <<"pain", "for", "days", "or", "weeks">> ],
      [ analysis |-> <<"symptom", "detailed", "medical history", "lifestyle",
                       "impact", "family">>,
        reply |-> <<"stress", "in", "the", "family">> ] }

\* what a patient writes in a turn
PatientUtterances ==
    { <<"headache", "since", "yesterday">> }

\* the lines of the report the provider writes
ReportTexts ==
    { <<"EXECUTIVE SUMMARY", "overview", "RECOMMENDATIONS", "rest",
        "FOLLOW-UP ACTIONS", "call">> }

\* the answers of calls that are not made or that raise are never read
Unread == [analysis |-> <<>>, reply |-> <<>>]

(***************************************************************************)
(* AIService: scoring, stage, completion gate.                             *)
(***************************************************************************)
\* variant: the top band given at the message limit only
base_score_at_limit(history_len) ==
    IF history_len = 10 THEN 30
    ELSE IF history_len >= 6 THEN 20
    ELSE IF history_len >= 3 THEN 10
    ELSE 0

base_score(history_len) ==
    IF history_len >= 10 THEN 30
    ELSE IF history_len >= 6 THEN 20
    ELSE IF history_len >= 3 THEN 10
    ELSE 0

calculate_completion_score(analysis_text, history_len) ==
    LET symptoms ==
            IF Has(analysis_text, "symptom")
            THEN IF Has(analysis_text, "detailed") \/ Has(analysis_text, "thorough")
                 THEN 20
                 ELSE IF Has(analysis_text, "basic") \/ Has(analysis_text, "main")
                      THEN 15
                      ELSE 10
            ELSE 0
        medical ==
            IF Has(analysis_text, "medical history") \/ Has(analysis_text, "medication")
            THEN 15 ELSE 0
        risk ==
            IF Has(analysis_text, "risk factor") \/ Has(analysis_text, "lifestyle")
            THEN 15 ELSE 0
        impact ==
            IF Has(analysis_text, "impact") \/ Has(analysis_text, "daily life")
            THEN 10 ELSE 0
        family == IF Has(analysis_text, "family") THEN 5 ELSE 0
        hearing ==
            IF Has(analysis_text, "hearing") \/ Has(analysis_text, "auditory")
            THEN 5 ELSE 0
        content_score == Min(symptoms + medical + risk + impact + family + hearing, 70)
        total_score == base_score(history_len) + content_score
    IN  Max(0, Min(100, total_score))

\* variant: the threshold compared strictly
determine_assessment_completion_strict(completion_score) ==
    completion_score > CompletionThreshold

determine_assessment_completion_looser(completion_score) ==
    completion_score >= CompletionThreshold

\* variant: the thresholds compared strictly
determine_assessment_stage_strict(completion_score) ==
    IF completion_score > CompleteStageScore THEN "complete"
    ELSE IF completion_score > SummaryStageScore THEN "ready_for_summary"
    ELSE IF completion_score > GatheringStageScore THEN "gathering"
    ELSE "initial"

\* variant: the stage is complete from the completion threshold on
determine_assessment_stage_one_threshold(completion_score) ==
    IF completion_score >= CompletionThreshold THEN "complete"
    ELSE IF completion_score >= GatheringStageScore THEN "gathering"
    ELSE "initial"

determine_assessment_stage_improved(completion_score) ==
    IF completion_score >= CompleteStageScore THEN "complete"
    ELSE IF completion_score >= SummaryStageScore THEN "ready_for_summary"
    ELSE IF completion_score >= GatheringStageScore THEN "gathering"
    ELSE "initial"

(***************************************************************************)
(* AIService._extract_structured_data_from_ai, for the symptom, duration,  *)
(* trigger and family-history vocabulary.  A list field holds its matches  *)
(* in vocabulary order; the scalar duration holds the last match.          *)
(***************************************************************************)
symptom_keywords == <<"pain", "headache">>
duration_patterns == <<"days", "weeks">>
trigger_patterns == <<"stress">>

extract_structured_data_from_ai(ai_content) ==
    LET durations == Matches(duration_patterns, ai_content)
    IN  [ symptoms |-> Matches(symptom_keywords, ai_content),
          duration |-> IF durations = <<>> THEN <<>>
                       ELSE <<durations[Len(durations)]>>,
          triggers |-> Matches(trigger_patterns, ai_content),
          family_history |-> IF Has(ai_content, "family")
                             THEN <<"family history mentioned">>
                             ELSE <<>> ]

\* the empty dict of the fallback response: every `.get(field)` on it is falsy,
\* as on a mapping whose fields are all empty
EmptyData ==
    [symptoms |-> <<>>, duration |-> <<>>, triggers |-> <<>>, family_history |-> <<>>]

\* the facts a collected-data mapping holds: (field, value) pairs
Facts(collected_data) ==
    UNION { { <<f, collected_data[f][i]>> : i \in 1..Len(collected_data[f]) } :
            f \in DOMAIN collected_data }

(***************************************************************************)
(* AIService: one conversational turn.                                     *)
(***************************************************************************)
FallbackQuestions ==
    << <<"Please describe your main symptoms">>,
       <<"How long have you been experiencing these symptoms?">> >>

create_fallback_response(message, stage) ==
    [ message |-> message,
      assessment_complete |-> FALSE,
      completion_score |-> 0,
      collected_data |-> EmptyData,
      assessment_stage |-> stage,
      next_questions |-> FallbackQuestions ]

\* F: the calls that raise in this request; analysis_text: the provider's answer.
\* Of the progress analysis, the fields create_structured_response_from_ai reads.
analyze_conversation_progress_ai(history_len, current_stage, F, analysis_text) ==
    IF "analysis" \in F
    THEN [ current_stage |-> current_stage,
           completion_score |-> 0,
           assessment_complete |-> FALSE ]
    ELSE LET completion_score == calculate_completion_score(analysis_text, history_len)
         IN  [ current_stage |-> determine_assessment_stage_improved(completion_score),
               completion_score |-> completion_score,
               assessment_complete |->
                   determine_assessment_completion_looser(completion_score) ]

create_structured_response_from_ai(ai_content, progress_analysis) ==
    [ message |-> ai_content,
      assessment_complete |-> progress_analysis.assessment_complete,
      completion_score |-> progress_analysis.completion_score,
      collected_data |-> extract_structured_data_from_ai(ai_content),
      assessment_stage |-> progress_analysis.current_stage,
      next_questions |-> <<>> ]

\* session_id or "default"
DefaultKey == 0
memory_key(session_id) == IF session_id = None THEN DefaultKey ELSE session_id

\* get_conversation_memory(key), then chat_memory.add_*_message
add_to_memory(mem, key, type) ==
    [ k \in DOMAIN mem \cup {key} |->
        IF k = key
        THEN (IF k \in DOMAIN mem THEN mem[k] ELSE <<>>) \o <<type>>
        ELSE mem[k] ]

\* messages[-8:] if len(messages) > 8 else messages
last_messages(entries) ==
    IF Len(entries) > ContextWindow
    THEN SubSeq(entries, Len(entries) - ContextWindow + 1, Len(entries))
    ELSE entries

\* the entries the prompt shows; <<>> stands for "No conversation history
\* available."
get_conversation_context(mem, key) ==
    IF key \notin DOMAIN mem THEN <<>>
    ELSE last_messages(mem[key])

\* getattr(memory, 'session_id', 'default'): the memory object of a key has
\* no attribute session_id
context_key(key) == DefaultKey

\* the prompt of the reply call, for the memory object of a key
create_assessment_prompt(mem, key) ==
    [ conversation_context |-> get_conversation_context(mem, context_key(key)) ]

\* the calls generate_structured_response makes to the Generation Provider:
\* the progress analysis and the reply, each made whether or not it raises
provider_calls == IF enabled THEN 2 ELSE 0

\* the result and the conversation memories after the call
generate_structured_response(mem, session_id, history_len, assessment_stage, F, analysis_text, reply_text) ==
    IF ~enabled
    THEN [ result |-> create_fallback_response(<<"AI service unavailable">>,
                                               assessment_stage),
           memories |-> mem ]
    ELSE LET mem1 == add_to_memory(mem, memory_key(session_id), "human")
             progress_analysis ==
                 analyze_conversation_progress_ai(history_len, assessment_stage,
                                                  F, analysis_text)
         IN  IF "reply" \in F
             THEN [ result |-> create_fallback_response(
                        <<"I'm having trouble processing your request. Please try again.">>,
                        assessment_stage),
                    memories |-> mem1 ]
             ELSE [ result |-> create_structured_response_from_ai(reply_text,
                                                                  progress_analysis),
                    memories |-> add_to_memory(mem1, memory_key(session_id), "ai") ]

(***************************************************************************)
(* SupabaseDB.  A call named in F raises APIError and answers None, [] or  *)
(* False.                                                                  *)
(***************************************************************************)
SessionIds == 1..Len(sessions)

\* get_chat_messages_by_session; rows with no session id are kept under None
get_chat_messages_by_session(session_id) == messages[session_id]

\* get_patient_report_by_session: response.data[0] of a select without ORDER BY,
\* so any of the session's reports; {None} when there is none or the call raises
get_patient_report_by_session(session_id, F) ==
    LET rows == { id \in 1..Len(reports) : reports[id].session_id = session_id }
    IN  IF "report_lookup" \in F \/ rows = {} THEN {None} ELSE rows

add_chat_message(msgs, session_id, is_doctor, timestamp) ==
    [msgs EXCEPT ![session_id] =
        @ \o <<[is_doctor |-> is_doctor, timestamp |-> timestamp]>>]

\* .order('timestamp', desc=False): the orders in which the store may return
\* stored messages.  Messages of equal timestamp come in either order; they
\* are stored in pairs, next to each other.
order_by_timestamp(stored) ==
    LET ties == { i \in 1..(Len(stored) - 1) :
                    stored[i].timestamp = stored[i + 1].timestamp }
    IN  { [ i \in 1..Len(stored) |->
              IF i \in swapped THEN stored[i + 1]
              ELSE IF i - 1 \in swapped THEN stored[i - 1]
              ELSE stored[i] ] :
          swapped \in { T \in SUBSET ties : \A i \in T : i + 1 \notin T } }

\* datetime.now(): the time a request on a session reads is later than the
\* timestamp of every message stored for the session before it; only the
\* order of the times within a session is kept, counted in stored messages
now(session_id) ==
    IF session_id \in DOMAIN messages THEN Len(messages[session_id]) ELSE 0

\* variant: only the score is written
update_chat_session_progress_score_only(sess, session_id, completion_score, assessment_complete, F) ==
    IF "progress" \in F THEN sess
    ELSE [sess EXCEPT ![session_id].completion_score = completion_score]

update_chat_session_progress(sess, session_id, completion_score, assessment_complete, F) ==
    IF "progress" \in F THEN sess
    ELSE [sess EXCEPT ![session_id].completion_score = completion_score,
                      ![session_id].assessment_complete = assessment_complete]

deactivate_user_sessions(sess, user_id, F) ==
    IF "deactivate" \in F THEN sess
    ELSE [ id \in DOMAIN sess |->
             IF sess[id].user_id = user_id /\ sess[id].is_active
             THEN [sess[id] EXCEPT !.is_active = FALSE]
             ELSE sess[id] ]

\* the row the store makes of an insert of user_id and session_name
NewSession(user_id) ==
    [ user_id |-> user_id, is_active |-> TRUE,
      assessment_complete |-> FALSE, completion_score |-> 0 ]

Response(op, session_id, status, assessment_complete, completion_score, message_count) ==
    [ op |-> op, session_id |-> session_id, status |-> status,
      assessment_complete |-> assessment_complete,
      completion_score |-> completion_score,
      message_count |-> message_count ]

\* the prose columns of a report never generated: all NULL
NoSections == [c \in {} |-> <<>>]

NoTurn == create_fallback_response(<<>>, "none")

\* no call of a pure function
NoCalc ==
    [ fn |-> "none", text |-> <<>>, report_text |-> <<>>, n |-> 0, done |-> FALSE, score |-> 0,
      stage |-> "", sections |-> NoSections, questions |-> <<>> ]

Init ==
    /\ calc = NoCalc
    /\ enabled \in BOOLEAN
    /\ sessions = <<>>
    /\ messages = [k \in {None} |-> <<>>]
    /\ reports = <<>>
    /\ memories = <<>>
    /\ turn = NoTurn
    /\ resp = Response("none", None, 0, FALSE, 0, 0)
    /\ raised = {}
    /\ failed = 0
    /\ inflight = [s \in 1..MaxSessions |-> 0]

(***************************************************************************)
(* POST /session                                                           *)
(***************************************************************************)
CreateCalls == {"deactivate", "insert", "greeting"}

create_chat_session(user_id, F) ==
    /\ Len(sessions) < MaxSessions
    /\ LET deactivated == deactivate_user_sessions(sessions, user_id, F)
           id == Len(sessions) + 1
       IN  IF "insert" \in F
           THEN /\ sessions' = deactivated
                /\ resp' = Response("create_chat_session", None, 500, FALSE, 0, 0)
                /\ UNCHANGED messages
           ELSE /\ sessions' = Append(deactivated, NewSession(user_id))
                \* the greeting is saved as the session's first message, unless it
                \* is empty or its insert raises
                /\ messages' = [ k \in DOMAIN messages \cup {id} |->
                                   IF k # id THEN messages[k]
                                   ELSE IF "greeting" \in F THEN <<>>
                                   ELSE <<[is_doctor |-> TRUE, timestamp |-> now(id)]>> ]
                /\ resp' = Response("create_chat_session", id, 200, FALSE, 0, 0)
    /\ UNCHANGED <<enabled, reports, memories, turn>>

(***************************************************************************)
(* POST /send                                                              *)
(***************************************************************************)
SendCalls == {"report_lookup", "analysis", "reply", "report_write",
              "save_user", "save_ai", "progress"}

\* _update_patient_report: the reports table after the call
update_patient_report(reps, session_id, ai_response, existing_report, F) ==
    IF session_id = None \/ "report_write" \in F THEN reps
    ELSE IF existing_report # None
    THEN [reps EXCEPT ![existing_report] =
            [ session_id |-> session_id,
              collected_data |-> ai_response.collected_data,
              assessment_stage |-> ai_response.assessment_stage,
              is_complete |-> ai_response.assessment_complete,
              sections |-> @.sections ]]
    ELSE Append(reps,
            [ session_id |-> session_id,
              collected_data |-> ai_response.collected_data,
              assessment_stage |-> ai_response.assessment_stage,
              is_complete |-> ai_response.assessment_complete,
              sections |-> NoSections ])

\* variant: the limit compared strictly
message_limit_reached_strict(message_count) == message_count > MessageLimit

message_limit_reached(message_count) == message_count >= MessageLimit

\* has_response: the request already carries a response, so no reply is generated
\* send_message after its limit check: chat.py from line 217 on
accept_message(session_id, has_response, F, analysis_text, reply_text) ==
    \E current_report \in get_patient_report_by_session(session_id, F) :
      LET message_count == Len(get_chat_messages_by_session(session_id))
          assessment_stage ==
              IF current_report # None
              THEN reports[current_report].assessment_stage
              ELSE "initial"
          history_len ==
              IF session_id # None THEN message_count ELSE 0
          generated ==
              generate_structured_response(memories, session_id, history_len,
                                           assessment_stage, F, analysis_text,
                                           reply_text)
          ai_response == generated.result
          reports1 ==
              IF has_response THEN reports
              ELSE update_patient_report(reports, session_id, ai_response,
                                         current_report, F)
          now_iso == now(session_id)
          messages1 == add_chat_message(messages, session_id, FALSE, now_iso)
          messages2 ==
              IF "save_ai" \in F THEN messages1
              ELSE add_chat_message(messages1, session_id, TRUE, now_iso)
          current_message_count ==
              IF session_id # None THEN Len(messages2[session_id]) ELSE 0
          assessment_complete == message_limit_reached(current_message_count)
      IN
      /\ memories' = IF has_response THEN memories ELSE generated.memories
      /\ turn' = IF has_response THEN turn ELSE ai_response
      /\ reports' = reports1
      /\ UNCHANGED enabled
      /\ IF "save_user" \in F
         THEN \* "Failed to save user message"
              /\ resp' = Response("send_message", session_id, 500, FALSE, 0, 0)
              /\ UNCHANGED <<sessions, messages>>
         ELSE /\ messages' = messages2
              /\ IF has_response
                 THEN \* ai_response is unbound: the handler raises after the saves
                      /\ resp' = Response("send_message", session_id, 500, FALSE, 0, 0)
                      /\ UNCHANGED sessions
                 ELSE /\ sessions' =
                            IF session_id # None
                            THEN update_chat_session_progress(
                                     sessions, session_id,
                                     ai_response.completion_score,
                                     assessment_complete, F)
                            ELSE sessions
                      /\ resp' = Response("send_message", session_id, 200,
                                          assessment_complete,
                                          ai_response.completion_score,
                                          current_message_count)

send_message(session_id, has_response, F, analysis_text, reply_text) ==
    LET message_count == Len(get_chat_messages_by_session(session_id))
    IN  IF session_id # None /\ message_limit_reached(message_count)
        THEN /\ resp' = Response("send_message", session_id, 400, FALSE, 0, message_count)
             /\ UNCHANGED <<enabled, sessions, messages, reports, memories, turn>>
        ELSE accept_message(session_id, has_response, F, analysis_text, reply_text)

(***************************************************************************)
(* POST /generate-report/{session_id}                                      *)
(***************************************************************************)
ReportCalls == {"report_lookup", "report", "report_write", "progress"}

\* AIService.generate_patient_report: a dict with the key "error" or the key "report"
generate_patient_report(F, report_text) ==
    IF ~enabled THEN [k \in {"error"} |-> <<"AI service unavailable">>]
    ELSE IF "report" \in F THEN [k \in {"error"} |-> <<"Failed to generate report">>]
    ELSE [k \in {"report"} |-> report_text]

section_titles ==
    << "EXECUTIVE SUMMARY", "SYMPTOM ANALYSIS", "RISK ASSESSMENT",
       "HEARING ASSESSMENT SUMMARY", "RECOMMENDATIONS", "FOLLOW-UP ACTIONS" >>

\* title.lower().replace("-", "_"): the blank of a title stays a blank
section_key(title) ==
    CASE title = "EXECUTIVE SUMMARY" -> "executive summary"
      [] title = "SYMPTOM ANALYSIS" -> "symptom analysis"
      [] title = "RISK ASSESSMENT" -> "risk assessment"
      [] title = "HEARING ASSESSMENT SUMMARY" -> "hearing assessment summary"
      [] title = "RECOMMENDATIONS" -> "recommendations"
      [] title = "FOLLOW-UP ACTIONS" -> "follow_up actions"

\* The section extraction of generate_final_report over the lines of the
\* provider's report.  A line that starts with a title is the line of that
\* title; a section holds the lines that follow its title.
RECURSIVE extract_sections(_, _, _)
extract_sections(lines, current, sections) ==
    IF lines = <<>> THEN sections
    ELSE LET line == Head(lines)
             matched == \E i \in 1..Len(section_titles) : section_titles[i] = line
         IN  IF matched
             THEN extract_sections(Tail(lines), section_key(line),
                      [k \in DOMAIN sections \cup {section_key(line)} |->
                          IF k = section_key(line) THEN <<>> ELSE sections[k]])
             ELSE IF current # ""
             THEN extract_sections(Tail(lines), current,
                      [sections EXCEPT ![current] = Append(@, line)])
             ELSE extract_sections(Tail(lines), current, sections)

\* the report columns that hold prose, and the prose written when a section is absent
SectionColumns ==
    { "executive_summary", "symptom_analysis", "risk_assessment",
      "hearing_assessment_summary", "recommendations", "follow_up_actions" }

Boilerplate(column) == <<"boilerplate", column>>

\* the prose columns of report_data
report_sections(ai_report) ==
    IF "error" \in DOMAIN ai_report
    THEN [c \in SectionColumns \ {"hearing_assessment_summary"} |-> Boilerplate(c)]
    ELSE LET sections == extract_sections(ai_report["report"], "", NoSections)
         IN  [c \in SectionColumns |->
                IF c \in DOMAIN sections THEN sections[c] ELSE Boilerplate(c)]

\* an update writes the columns it names and keeps the others
write_columns(old, new) ==
    [c \in DOMAIN old \cup DOMAIN new |-> IF c \in DOMAIN new THEN new[c] ELSE old[c]]

\* variant: the report guarded by the depth asked of a manual completion
too_few_for_report_as_manual(message_count) == message_count < MinManualMessages

too_few_for_report(message_count) == message_count < MinReportMessages

generate_final_report(session_id, F, report_text) ==
    \E existing_report \in get_patient_report_by_session(session_id, F) :
      LET message_count == Len(get_chat_messages_by_session(session_id))
      IN
      IF existing_report = None
      THEN /\ resp' = Response("generate_final_report", session_id, 404, FALSE, 0,
                               message_count)
           /\ UNCHANGED <<enabled, sessions, messages, reports, memories, turn>>
      ELSE IF too_few_for_report(message_count)
      THEN /\ resp' = Response("generate_final_report", session_id, 400, FALSE, 0,
                               message_count)
           /\ UNCHANGED <<enabled, sessions, messages, reports, memories, turn>>
      ELSE IF "report_write" \in F
      THEN /\ resp' = Response("generate_final_report", session_id, 500, FALSE, 0,
                               message_count)
           /\ UNCHANGED <<enabled, sessions, messages, reports, memories, turn>>
      ELSE \* with the provider's prose or, when it errs, the fallback prose
           /\ reports' = [reports EXCEPT ![existing_report] =
                            [ session_id |-> session_id,
                              collected_data |-> @.collected_data,
                              assessment_stage |-> "complete",
                              is_complete |-> TRUE,
                              sections |-> write_columns(@.sections,
                                  report_sections(generate_patient_report(F, report_text))) ]]
           /\ sessions' = update_chat_session_progress(sessions, session_id,
                                                       FinalReportScore, TRUE, F)
           /\ resp' = Response("generate_final_report", session_id, 200, TRUE,
                               FinalReportScore, message_count)
           /\ UNCHANGED <<enabled, messages, memories, turn>>

(***************************************************************************)
(* POST /complete-assessment/{session_id}                                  *)
(***************************************************************************)
ManualCalls == {"report_lookup", "report_write", "progress"}

too_few_for_completion(message_count) == message_count < MinManualMessages

complete_assessment_manually(session_id, F) ==
    \E existing_report \in get_patient_report_by_session(session_id, F) :
      LET message_count == Len(get_chat_messages_by_session(session_id))
          completion_score == Max(message_count * 10, ManualMinScore)
      IN
      IF existing_report = None
      THEN /\ resp' = Response("complete_assessment_manually", session_id, 404,
                               FALSE, 0, message_count)
           /\ UNCHANGED <<enabled, sessions, messages, reports, memories, turn>>
      ELSE IF too_few_for_completion(message_count)
      THEN /\ resp' = Response("complete_assessment_manually", session_id, 400,
                               FALSE, 0, message_count)
           /\ UNCHANGED <<enabled, sessions, messages, reports, memories, turn>>
      ELSE IF "report_write" \in F
      THEN /\ resp' = Response("complete_assessment_manually", session_id, 500,
                               FALSE, 0, message_count)
           /\ UNCHANGED <<enabled, sessions, messages, reports, memories, turn>>
      ELSE /\ reports' = [reports EXCEPT ![existing_report].is_complete = TRUE,
                                         ![existing_report].assessment_stage = "complete"]
           /\ sessions' = update_chat_session_progress(sessions, session_id,
                                                       completion_score, TRUE, F)
           /\ resp' = Response("complete_assessment_manually", session_id, 200,
                               TRUE, completion_score, message_count)
           /\ UNCHANGED <<enabled, messages, memories, turn>>

(***************************************************************************)
(* The requests a client makes.  F names the calls that raise during the   *)
(* request; only calls the request reaches are named.                      *)
(***************************************************************************)
\* In a request no call raises, or one call does, or the Generation Provider
\* raises on every call made to it.
Failures(calls) ==
    IF failed < MaxFailedRequests
    THEN {{}} \cup { {c} : c \in calls }
              \cup { F \in {{"analysis", "reply"}} : F \subseteq calls }
    ELSE {{}}

Raises(F) ==
    /\ raised' = F
    /\ failed' = IF F # {} THEN failed + 1 ELSE failed

CreateChatSession ==
    \E user_id \in Users, F \in Failures(CreateCalls) :
        /\ Raises(F)
        /\ create_chat_session(user_id, F)
        /\ UNCHANGED <<calc, inflight>>

\* the patient messages persisted so far, over all sessions
RECURSIVE PatientMessages(_)
PatientMessages(ids) ==
    IF ids = {} THEN 0
    ELSE LET id == CHOOSE k \in ids : TRUE
         IN  Cardinality({ i \in 1..Len(messages[id]) : ~messages[id][i].is_doctor })
             + PatientMessages(ids \ {id})

\* The client sends a message with no response set.  A request is made while
\* the transcripts hold fewer than MaxPatientMessages patient messages, or to a
\* session at the message limit.
SendMessage ==
    \E session_id \in SessionIds, F \in Failures(SendCalls) :
        /\ \/ PatientMessages(SessionIds) < MaxPatientMessages
           \/ Len(messages[session_id]) >= MessageLimit
        /\ ~enabled => F \cap {"analysis", "reply"} = {}
        /\ Raises(F)
        /\ UNCHANGED <<calc, inflight>>
        /\ \E answers \in IF enabled THEN ProviderAnswers ELSE {Unread} :
             send_message(session_id, FALSE, F,
                          IF "analysis" \in F THEN Unread.analysis ELSE answers.analysis,
                          IF "reply" \in F THEN Unread.reply ELSE answers.reply)

GenerateFinalReport ==
    \E session_id \in SessionIds, F \in Failures(ReportCalls) :
        /\ ~enabled => "report" \notin F
        /\ Raises(F)
        /\ UNCHANGED <<calc, inflight>>
        /\ \E report_text \in IF enabled /\ "report" \notin F THEN ReportTexts ELSE {<<>>} :
             generate_final_report(session_id, F, report_text)

CompleteAssessmentManually ==
    \E session_id \in SessionIds, F \in Failures(ManualCalls) :
        /\ Raises(F)
        /\ complete_assessment_manually(session_id, F)
        /\ UNCHANGED <<calc, inflight>>

Next ==
    \/ CreateChatSession
    \/ SendMessage
    \/ GenerateFinalReport
    \/ CompleteAssessmentManually

Spec == Init /\ [][Next]_vars

(***************************************************************************)
(* A client that keeps sending.  The store answers every call; the         *)
(* Generation Provider answers or raises as it likes, on either call, in   *)
(* every turn.  A session that exists is sent to again and again: the      *)
(* handler is weakly fair per session.                                     *)
(***************************************************************************)
ProviderFailures ==
    IF enabled THEN SUBSET {"analysis", "reply"} ELSE {{}}

NoStoreFailure ==
    /\ raised' = {}
    /\ UNCHANGED <<failed, calc, inflight>>

LiveCreateChatSession ==
    \E user_id \in Users :
        /\ Len(sessions) < MaxLiveSessions
        /\ NoStoreFailure
        /\ create_chat_session(user_id, {})

LiveSendMessage(session_id) ==
    /\ session_id \in SessionIds
    /\ \E F \in ProviderFailures :
        /\ raised' = F
        /\ UNCHANGED <<failed, calc, inflight>>
        /\ \E answers \in IF enabled THEN ProviderAnswers ELSE {Unread} :
             send_message(session_id, FALSE, F,
                          IF "analysis" \in F THEN Unread.analysis ELSE answers.analysis,
                          IF "reply" \in F THEN Unread.reply ELSE answers.reply)

LiveSend == \E session_id \in SessionIds : LiveSendMessage(session_id)

LiveGenerateFinalReport ==
    \E session_id \in SessionIds :
        /\ NoStoreFailure
        /\ \E report_text \in IF enabled THEN ReportTexts ELSE {<<>>} :
             generate_final_report(session_id, {}, report_text)

LiveCompleteAssessmentManually ==
    \E session_id \in SessionIds :
        /\ NoStoreFailure
        /\ complete_assessment_manually(session_id, {})

LiveNext ==
    \/ LiveCreateChatSession
    \/ LiveSend
    \/ LiveGenerateFinalReport
    \/ LiveCompleteAssessmentManually

LiveSpec ==
    /\ Init
    /\ [][LiveNext]_vars
    /\ \A session_id \in 1..MaxLiveSessions : WF_vars(LiveSendMessage(session_id))

(***************************************************************************)
(* A client that sends every message the ChatMessage model admits: with or *)
(* without a session id, with or without a response of its own.  The store *)
(* answers every call.  Messages without session id meet no limit in the   *)
(* handler; the client sends MaxSessionlessMessages of them at most.       *)
(***************************************************************************)
SendAnyMessage ==
    \E session_id \in SessionIds \cup {None}, has_response \in BOOLEAN :
        /\ session_id = None => Len(messages[None]) < MaxSessionlessMessages
        /\ \E F \in ProviderFailures :
            /\ has_response => F = {}
            /\ raised' = F
            /\ UNCHANGED <<failed, calc, inflight>>
            /\ \E answers \in IF enabled /\ ~has_response THEN ProviderAnswers ELSE {Unread} :
                 send_message(session_id, has_response, F,
                              IF "analysis" \in F THEN Unread.analysis ELSE answers.analysis,
                              IF "reply" \in F THEN Unread.reply ELSE answers.reply)

OpenNext ==
    \/ LiveCreateChatSession
    \/ SendAnyMessage
    \/ LiveGenerateFinalReport
    \/ LiveCompleteAssessmentManually

OpenSpec == Init /\ [][OpenNext]_vars

(***************************************************************************)
(* Clients whose send_message requests on a session overlap.  After its   *)
(* limit check (chat.py:210-215) the handler suspends at its awaits, the   *)
(* calls to the provider among them (chat.py:246), so another request on   *)
(* the session may run its own check before this one goes on.  A request   *)
(* is two steps here: the check, and the rest of the handler.  The store   *)
(* answers every call.                                                     *)
(***************************************************************************)
BeginSendMessage ==
    \E session_id \in SessionIds :
        LET message_count == Len(get_chat_messages_by_session(session_id))
        IN  /\ inflight[session_id] < MaxOverlap
            /\ IF message_limit_reached(message_count)
               THEN /\ resp' = Response("send_message", session_id, 400, FALSE, 0,
                                        message_count)
                    /\ raised' = {}
                    /\ UNCHANGED inflight
               ELSE /\ inflight' = [inflight EXCEPT ![session_id] = @ + 1]
                    /\ UNCHANGED <<resp, raised>>
            /\ UNCHANGED <<enabled, sessions, messages, reports, memories, turn,
                           failed, calc>>

FinishSendMessage ==
    \E session_id \in SessionIds, F \in ProviderFailures :
        /\ inflight[session_id] > 0
        /\ inflight' = [inflight EXCEPT ![session_id] = @ - 1]
        /\ raised' = F
        /\ UNCHANGED <<failed, calc>>
        /\ \E answers \in IF enabled THEN ProviderAnswers ELSE {Unread} :
             accept_message(session_id, FALSE, F,
                            IF "analysis" \in F THEN Unread.analysis ELSE answers.analysis,
                            IF "reply" \in F THEN Unread.reply ELSE answers.reply)

OverlapNext ==
    \/ LiveCreateChatSession
    \/ BeginSendMessage
    \/ FinishSendMessage

OverlapSpec == Init /\ [][OverlapNext]_vars
(***************************************************************************)
(* AIService._parse_report_into_sections.  A report text is a sequence of  *)
(* lines, a line a sequence of phrases; a blank line is <<>>.  The content *)
(* of a section is the sequence of its lines.                              *)
(***************************************************************************)
\* the branches of the loop, in their order: the section and its keywords
section_markers ==
    << [ section |-> "executive_summary",
         keywords |-> {"executive summary", "1.", "1)"} ],
       [ section |-> "symptom_analysis",
         keywords |-> {"symptom analysis", "2.", "2)"} ],
       [ section |-> "risk_assessment",
         keywords |-> {"risk assessment", "3.", "3)"} ],
       [ section |-> "hearing_assessment_summary",
         keywords |-> {"hearing assessment", "4.", "4)"} ],
       [ section |-> "recommendations",
         keywords |-> {"recommendations", "5.", "5)"} ],
       [ section |-> "follow_up_actions",
         keywords |-> {"follow-up actions", "follow up actions", "6.", "6)"} ] >>

\* the first branch a line takes, 0 when it takes none
marker_branch(line) ==
    LET branches == { i \in 1..Len(section_markers) :
                        \E keyword \in section_markers[i].keywords : Has(line, keyword) }
    IN  IF branches = {} THEN 0
        ELSE CHOOSE i \in branches : \A j \in branches : i <= j

EmptySections == [c \in SectionColumns |-> <<>>]

\* if current_section and current_content: sections[current_section] = ...
save_section(sections, current_section, current_content) ==
    IF current_section # "" /\ current_content # <<>>
    THEN [sections EXCEPT ![current_section] = current_content]
    ELSE sections

\* variant: a text without sections is left without sections
summary_of_unparsed_dropped(sections, report_text) == sections

\* if not any(sections.values()): sections["executive_summary"] = report_text
summary_of_unparsed(sections, report_text) ==
    IF \A c \in DOMAIN sections : sections[c] = <<>>
    THEN [sections EXCEPT !["executive_summary"] = report_text]
    ELSE sections

RECURSIVE parse_lines(_, _, _, _)
parse_lines(lines, current_section, current_content, sections) ==
    IF lines = <<>>
    THEN save_section(sections, current_section, current_content)
    ELSE LET line == Head(lines)
             branch == marker_branch(line)
         IN  IF branch # 0
             THEN parse_lines(Tail(lines), section_markers[branch].section, <<>>,
                      save_section(sections, current_section, current_content))
             ELSE IF line # <<>> /\ current_section # ""
             THEN parse_lines(Tail(lines), current_section,
                              Append(current_content, line), sections)
             ELSE parse_lines(Tail(lines), current_section, current_content, sections)

parse_report_into_sections(report_text) ==
    summary_of_unparsed(parse_lines(report_text, "", <<>>, EmptySections), report_text)

(***************************************************************************)
(* AIService._suggest_next_questions.                                      *)
(***************************************************************************)
ClosingQuestion == "Is there anything else you'd like me to know about your health concerns?"

\* the questions of the branch a score takes, each with the phrase that
\* withholds it
tier_questions(completion_score) ==
    IF completion_score < GatheringStageScore
    THEN << [ phrase |-> "symptom",
              question |-> "Can you describe your main symptoms in detail?" ],
            [ phrase |-> "medical history",
              question |-> "Do you have any existing medical conditions or take medications?" ],
            [ phrase |-> "duration",
              question |-> "How long have you been experiencing these symptoms?" ] >>
    ELSE IF completion_score < SummaryStageScore
    THEN << [ phrase |-> "severity",
              question |-> "How severe are these symptoms on a scale of 1-10?" ],
            [ phrase |-> "trigger",
              question |-> "What seems to trigger or worsen these symptoms?" ],
            [ phrase |-> "impact",
              question |-> "How do these symptoms affect your daily life and activities?" ],
            [ phrase |-> "family",
              question |-> "Is there any family history of similar neurological conditions?" ] >>
    ELSE << [ phrase |-> "treatment",
              question |-> "Have you tried any treatments or medications for these symptoms?" ],
            [ phrase |-> "hearing",
              question |-> "Do you have any concerns about your hearing or balance?" ],
            [ phrase |-> "follow-up",
              question |-> "What would you like to achieve from this assessment?" ] >>

\* variant: the list is returned whole
limit_questions_unlimited(questions) == questions

\* return questions[:3]
limit_questions(questions) == SubSeq(questions, 1, Min(3, Len(questions)))

suggest_next_questions(completion_score, analysis_text) ==
    LET asked == SelectSeq(tier_questions(completion_score),
                           LAMBDA q : ~Has(analysis_text, q.phrase))
        questions == [i \in 1..Len(asked) |-> asked[i].question]
    IN  limit_questions(IF Len(questions) < 2
                        THEN Append(questions, ClosingQuestion)
                        ELSE questions)

(***************************************************************************)
(* AIService's pure functions, called on their own.  The input of a call  *)
(* is drawn at the start; Touch and Lengthen then grow the input of a     *)
(* scoring: the analysis touches one more phrase, the transcript gets one *)
(* more message.                                                          *)
(***************************************************************************)
\* phrases that an analysis text may hold
ScoreVocabulary ==
    << "symptom", "detailed", "thorough", "basic", "medical history",
       "risk factor", "lifestyle", "impact", "family", "hearing" >>

\* the text that holds the phrases of S
TextOf(S, vocabulary) == SelectSeq(vocabulary, LAMBDA w : w \in S)

Words(vocabulary) == { vocabulary[i] : i \in 1..Len(vocabulary) }

Touched(text) == { text[i] : i \in 1..Len(text) }

ScoreInputs ==
    { [NoCalc EXCEPT !.fn = "score", !.text = TextOf(S, ScoreVocabulary), !.n = n] :
        S \in SUBSET Words(ScoreVocabulary), n \in 0..MaxHistoryLen }

\* lines a report may hold: body lines, a blank line, heading lines
BodyLines ==
    { <<"plain">>, <<"recommendations", "for", "risk", "reduction">> }

LineAlphabet ==
    BodyLines \cup { <<>>, <<"executive summary">>, <<"2.", "symptom analysis">> }

\* the heading of a section as the prompt asks for it, numbered or not
HeadingLine(i, numbered) ==
    LET title == CASE i = 1 -> "executive summary"
                   [] i = 2 -> "symptom analysis"
                   [] i = 3 -> "risk assessment"
                   [] i = 4 -> "hearing assessment"
                   [] i = 5 -> "recommendations"
                   [] i = 6 -> "follow-up actions"
        number == CASE i = 1 -> "1." [] i = 2 -> "2." [] i = 3 -> "3."
                    [] i = 4 -> "4." [] i = 5 -> "5." [] i = 6 -> "6."
    IN  IF numbered THEN <<number, title>> ELSE <<title>>

\* the six headings in their order, each followed by one body line
SixSectionText(bodies, numbered) ==
    [ k \in 1..12 |-> IF k % 2 = 1 THEN HeadingLine((k + 1) \div 2, numbered)
                      ELSE bodies[k \div 2] ]

ParseInputs ==
    { [NoCalc EXCEPT !.fn = "parse", !.report_text = text] :
        text \in UNION { [1..k -> LineAlphabet] : k \in 0..MaxReportLines }
                 \cup { SixSectionText(bodies, numbered) :
                          bodies \in [1..6 -> BodyLines], numbered \in BOOLEAN } }

\* the phrases the advisor looks for
AdvisorVocabulary ==
    << "symptom", "medical history", "duration", "severity", "trigger",
       "impact", "family", "treatment", "hearing", "follow-up" >>

\* scores at the ends of the three bands
AdvisorScores ==
    { 0, GatheringStageScore - 1, GatheringStageScore, SummaryStageScore - 1,
      SummaryStageScore, MaxScore }

SuggestInputs ==
    { [NoCalc EXCEPT !.fn = "suggest", !.n = n, !.text = TextOf(S, AdvisorVocabulary)] :
        n \in AdvisorScores, S \in SUBSET Words(AdvisorVocabulary) }

StageInputs ==
    { [NoCalc EXCEPT !.fn = "stage", !.n = n] : n \in 0..MaxScore }

PureInit ==
    /\ calc \in ScoreInputs \cup StageInputs \cup ParseInputs \cup SuggestInputs
    /\ enabled = TRUE
    /\ sessions = <<>>
    /\ messages = [k \in {None} |-> <<>>]
    /\ reports = <<>>
    /\ memories = <<>>
    /\ turn = NoTurn
    /\ resp = Response("none", None, 0, FALSE, 0, 0)
    /\ raised = {}
    /\ failed = 0
    /\ inflight = [s \in 1..MaxSessions |-> 0]

Score ==
    /\ calc.fn = "score"
    /\ ~calc.done
    /\ calc' = [calc EXCEPT !.done = TRUE,
                            !.score = calculate_completion_score(calc.text, calc.n)]
    /\ UNCHANGED system

Touch ==
    /\ calc.fn = "score"
    /\ calc.done
    /\ \E w \in Words(ScoreVocabulary) \ Touched(calc.text) :
         LET text == TextOf(Touched(calc.text) \cup {w}, ScoreVocabulary)
         IN  calc' = [calc EXCEPT !.text = text,
                                  !.score = calculate_completion_score(text, calc.n)]
    /\ UNCHANGED system

Lengthen ==
    /\ calc.fn = "score"
    /\ calc.done
    /\ calc.n < MaxHistoryLen
    /\ calc' = [calc EXCEPT !.n = calc.n + 1,
                            !.score = calculate_completion_score(calc.text, calc.n + 1)]
    /\ UNCHANGED system

Stage ==
    /\ calc.fn = "stage"
    /\ ~calc.done
    /\ calc' = [calc EXCEPT !.done = TRUE,
                            !.stage = determine_assessment_stage_improved(calc.n)]
    /\ UNCHANGED system

Parse ==
    /\ calc.fn = "parse"
    /\ ~calc.done
    /\ calc' = [calc EXCEPT !.done = TRUE,
                            !.sections = parse_report_into_sections(calc.report_text)]
    /\ UNCHANGED system

Suggest ==
    /\ calc.fn = "suggest"
    /\ ~calc.done
    /\ calc' = [calc EXCEPT !.done = TRUE,
                            !.questions = suggest_next_questions(calc.n, calc.text)]
    /\ UNCHANGED system

PureNext ==
    \/ Score
    \/ Stage
    \/ Parse
    \/ Suggest
    \/ Touch
    \/ Lengthen

PureSpec == PureInit /\ [][PureNext]_vars

(***************************************************************************)
(* Properties.                                                             *)
(***************************************************************************)
ReportsOf(session_id) ==
    { id \in 1..Len(reports) : reports[id].session_id = session_id }

PatientTurns(session_id) ==
    Cardinality({ i \in 1..Len(messages[session_id]) :
                    ~messages[session_id][i].is_doctor })

StoreUnchanged == UNCHANGED <<messages, sessions, reports, memories>>

C2_SessionTerminates ==
    \A s \in 1..MaxLiveSessions :
        [](s \in SessionIds
              => <>[](/\ s \in SessionIds
                      /\ sessions[s].assessment_complete
                      /\ Len(messages[s]) >= MessageLimit))

\* a session reached the ceiling although the provider raised in its last turn
C2_TerminatedWithFailingProvider ==
    /\ resp.op = "send_message"
    /\ resp.status = 200
    /\ raised = {"analysis", "reply"}
    /\ sessions[resp.session_id].assessment_complete
    /\ Len(messages[resp.session_id]) >= MessageLimit
    /\ turn.completion_score = 0

\* C3, as the spec has it: the assessment_complete that send_message surfaces
\* is true only if the turn's score is at least 75, and is true for a turn
\* that scores 85.
C3_SurfacedFlagFollowsScore ==
    (resp.op = "send_message" /\ resp.status = 200) =>
        /\ resp.assessment_complete => resp.completion_score >= CompletionThreshold
        /\ resp.completion_score >= CompleteStageScore => resp.assessment_complete

\* C3, as the code has it: in the structured result of a turn,
\* assessment_complete is true exactly when the turn's score is at least 75;
\* send_message surfaces that score, but the assessment_complete it surfaces
\* is the message ceiling's.
C3_EngineFlagFollowsScore ==
    /\ turn.assessment_complete <=> turn.completion_score >= CompletionThreshold
    /\ (resp.op = "send_message" /\ resp.status = 200) =>
           /\ resp.completion_score = turn.completion_score
           /\ resp.assessment_complete = (resp.message_count >= MessageLimit)

\* a turn scores exactly 75: complete in the engine's result, not in the response
C3_TurnAtThreshold ==
    /\ resp.op = "send_message"
    /\ resp.status = 200
    /\ turn.completion_score = CompletionThreshold
    /\ turn.assessment_complete
    /\ ~resp.assessment_complete

FixedFallbackMessages ==
    { <<"AI service unavailable">>,
      <<"I'm having trouble processing your request. Please try again.">> }

\* C4: whenever the Generation Provider is disabled or raises during a turn,
\* the turn's result is the fallback: one of the fixed messages,
\* assessment_complete = false, score 0 and at least one suggested question;
\* and send_message answers with success when nothing else failed.
C4_FallbackOnProviderFailure ==
    (/\ resp.op = "send_message"
     /\ resp.status # 400
     /\ ~enabled \/ raised \cap {"analysis", "reply"} # {})
    => /\ turn.message \in FixedFallbackMessages
       /\ turn.message # <<>>
       /\ ~turn.assessment_complete
       /\ turn.completion_score = 0
       /\ Len(turn.next_questions) >= 1
       /\ raised \subseteq {"analysis", "reply"} => resp.status = 200

C6_CollectedDataAppendOnly ==
    [][resp'.op = "send_message"
          => \A id \in 1..Len(reports) :
                Facts(reports[id].collected_data)
                    \subseteq Facts(reports'[id].collected_data)]_vars

\* C7: a send_message that follows the report generation or the manual
\* completion of its session leaves the session's reports as they are, and
\* the session's assessment_complete true.
C7_CompletionTerminal ==
    [][(/\ resp.op \in {"generate_final_report", "complete_assessment_manually"}
        /\ resp.status = 200
        /\ resp'.op = "send_message"
        /\ resp'.session_id = resp.session_id)
       => /\ \A id \in ReportsOf(resp.session_id) : reports'[id] = reports[id]
          /\ sessions[resp.session_id].assessment_complete
                 => sessions'[resp.session_id].assessment_complete]_vars

BecomesComplete(id) ==
    /\ reports'[id].assessment_stage = "complete"
    /\ id \in 1..Len(reports) => reports[id].assessment_stage # "complete"

ByScoreThreshold ==
    /\ resp'.op = "send_message"
    /\ turn'.completion_score >= CompleteStageScore

ByManualCompletion ==
    /\ resp'.op = "complete_assessment_manually"
    /\ resp'.status = 200

ByReportGeneration ==
    /\ resp'.op = "generate_final_report"
    /\ resp'.status = 200

\* C8, as the spec has it: a report's stage becomes 'complete' only in a turn
\* whose score reaches the threshold of the stage, or by manual completion.
C8_CompleteOnlyByScoreOrManual ==
    [][\A id \in 1..Len(reports') :
          BecomesComplete(id) => ByScoreThreshold \/ ByManualCompletion]_vars

\* C8, as the code has it: a report's stage becomes 'complete' only in a turn
\* whose score is at least 85, by manual completion, or by the generation of
\* the final report.
C8_CompleteOnlyByScoreManualOrReport ==
    [][\A id \in 1..Len(reports') :
          BecomesComplete(id)
              => ByScoreThreshold \/ ByManualCompletion \/ ByReportGeneration]_vars

\* the final report was generated, and completed a report, after a turn whose
\* score was below the threshold of the stage
C8_CompletedByReportGeneration ==
    /\ resp.op = "generate_final_report"
    /\ resp.status = 200
    /\ turn.completion_score < CompleteStageScore
    /\ \E id \in ReportsOf(resp.session_id) :
          reports[id].assessment_stage = "complete"

\* C9: no session has more than one report.
C9_OneReportPerSession ==
    \A s \in SessionIds : Cardinality(ReportsOf(s)) <= 1

\* C10: every user who has a session has exactly one active session.
C10_OneActiveSessionPerUser ==
    \A u \in Users :
        (\E s \in SessionIds : sessions[s].user_id = u)
            => Cardinality({ s \in SessionIds :
                               sessions[s].user_id = u /\ sessions[s].is_active }) = 1

FilledSections(report) ==
    { c \in DOMAIN report.sections : report.sections[c] # <<>> }

\* C11: when the Generation Provider is disabled or raises during the
\* synthesis of a report, generate_patient_report answers an error and no
\* report text, and the request writes no report that is marked complete or
\* that has some but not all of the six sections filled.
C11_NoReportOnSynthesisError ==
    /\ [](\A F \in SUBSET ReportCalls, report_text \in ReportTexts :
             (~enabled \/ "report" \in F)
                 => DOMAIN generate_patient_report(F, report_text) = {"error"})
    /\ [][(/\ resp'.op = "generate_final_report"
           /\ ~enabled \/ "report" \in raised')
          => \A id \in 1..Len(reports) :
                reports'[id] # reports[id]
                    => /\ ~reports'[id].is_complete
                       /\ FilledSections(reports'[id]) \in {{}, SectionColumns}]_vars

\* C12: calculate_completion_score returns an integer from 0 to 100 for every
\* analysis text and every transcript length, and 0 for an empty transcript
\* and an analysis that touches none of the scored phrases.
C12_ScoreBounded ==
    (calc.fn = "score" /\ calc.done) =>
        /\ calc.score \in 0..100
        /\ (calc.n = 0 /\ calc.text = <<>>) => calc.score = 0

\* the score of an analysis that touches every category, at the longest transcript
C12_FullScore ==
    /\ calc.fn = "score"
    /\ calc.done
    /\ calc.n >= MessageLimit
    /\ calc.score = 100

\* C13: the score never decreases when the analysis touches one more phrase
\* or the transcript gets one more message; so an input that touches a
\* superset of the phrases of another, with a transcript at least as long,
\* scores at least as much.
C13_ScoreMonotone ==
    /\ [][(calc.fn = "score" /\ calc.done /\ calc'.done)
             => calc'.score >= calc.score]_vars
    /\ []((calc.fn = "score" /\ calc.done)
             => \A S \in SUBSET Words(ScoreVocabulary), n \in calc.n..MaxHistoryLen :
                   Touched(calc.text) \subseteq S
                       => calculate_completion_score(TextOf(S, ScoreVocabulary), n)
                              >= calc.score)

\* the score rose as the transcript grew over the message limit's band
C13_ScoreRoseWithLength ==
    /\ calc.fn = "score"
    /\ calc.done
    /\ calc.n = MaxHistoryLen
    /\ calc.score = 30 + calculate_completion_score(calc.text, 0)
    /\ calc.text # <<>>

StageRank(stage) ==
    CASE stage = "initial" -> 0
      [] stage = "gathering" -> 1
      [] stage = "ready_for_summary" -> 2
      [] stage = "complete" -> 3

\* C14: of two successive turns of a session, when the score of the second is
\* not below the score of the first, the stage of the second is not below the
\* stage of the first; also when the analysis of one of them failed.
C14_StageNeverRegresses ==
    [][(/\ resp.op = "send_message" /\ resp.status # 400
        /\ resp'.op = "send_message" /\ resp'.status # 400
        /\ resp'.session_id = resp.session_id
        /\ turn'.completion_score >= turn.completion_score)
       => StageRank(turn'.assessment_stage) >= StageRank(turn.assessment_stage)]_vars

\* C15, as the spec has it: the stage of a score is initial below 25,
\* symptom_collection from 25 to below 50, medical_history from 50 to below
\* 75, risk_assessment or ready_for_summary from 75 to below 85, and complete
\* from 85 on.
C15_FiveStageBands ==
    (calc.fn = "stage" /\ calc.done) =>
        calc.stage \in
            IF calc.n < 25 THEN {"initial"}
            ELSE IF calc.n < 50 THEN {"symptom_collection"}
            ELSE IF calc.n < 75 THEN {"medical_history"}
            ELSE IF calc.n < 85 THEN {"risk_assessment", "ready_for_summary"}
            ELSE {"complete"}

\* C15, as the code has it: the stage of a score is initial below 50,
\* gathering from 50 to below 75, ready_for_summary from 75 to below 85, and
\* complete from 85 on; a score that has risen but is below 50 is still initial.
C15_FourStageBands ==
    (calc.fn = "stage" /\ calc.done) =>
        /\ calc.stage = "initial" <=> calc.n < 50
        /\ calc.stage = "gathering" <=> (50 <= calc.n /\ calc.n < 75)
        /\ calc.stage = "ready_for_summary" <=> (75 <= calc.n /\ calc.n < 85)
        /\ calc.stage = "complete" <=> 85 <= calc.n

\* a score that has risen but is below 50, and its stage
C15_RisenScoreStillInitial ==
    /\ calc.fn = "stage"
    /\ calc.done
    /\ calc.n \in 25..49
    /\ calc.stage = "initial"

\* no line of the text takes a branch of the parser
NoHeadingMarker(text) == \A i \in 1..Len(text) : marker_branch(text[i]) = 0

\* C16: for a text without heading marker the parser returns the six
\* sections, the whole text as executive_summary and the other five empty.
C16_UnparsedTextIsSummary ==
    (calc.fn = "parse" /\ calc.done /\ NoHeadingMarker(calc.report_text)) =>
        /\ DOMAIN calc.sections = SectionColumns
        /\ calc.sections["executive_summary"] = calc.report_text
        /\ \A c \in SectionColumns \ {"executive_summary"} : calc.sections[c] = <<>>

\* a text of body lines only was parsed
C16_BodyLinesOnly ==
    /\ calc.fn = "parse"
    /\ calc.done
    /\ NoHeadingMarker(calc.report_text)
    /\ Len(calc.report_text) = MaxReportLines
    /\ \A i \in 1..Len(calc.report_text) : calc.report_text[i] # <<>>
    /\ calc.sections["executive_summary"] = calc.report_text

\* the text is the six headings, each followed by a line of body text
IsSixSectionText(text) ==
    /\ Len(text) = 12
    /\ \E numbered \in BOOLEAN :
          \A i \in 1..6 : /\ text[2 * i - 1] = HeadingLine(i, numbered)
                          /\ text[2 * i] \in BodyLines

\* C17: for a text that holds the six headings, each followed by body text,
\* every section of the result is non-empty and holds the body text that
\* followed its heading.
C17_EverySectionHoldsItsBody ==
    (calc.fn = "parse" /\ calc.done /\ IsSixSectionText(calc.report_text)) =>
        \A i \in 1..6 :
            LET c == section_markers[i].section
            IN  /\ calc.sections[c] # <<>>
                /\ calc.sections[c] = <<calc.report_text[2 * i]>>

\* the questions of the score's band whose phrase the analysis lacks
TierSpecific(completion_score, analysis_text) ==
    { tier_questions(completion_score)[i].question :
        i \in { j \in 1..Len(tier_questions(completion_score)) :
                  ~Has(analysis_text, tier_questions(completion_score)[j].phrase) } }

\* C18: the advisor returns one to three questions; each is a question of
\* the score's band that applies to the analysis, or the closing question;
\* the closing question ends the list whenever fewer than two questions of
\* the band apply.
C18_OneToThreeTierQuestions ==
    (calc.fn = "suggest" /\ calc.done) =>
        LET specific == TierSpecific(calc.n, calc.text)
            last == calc.questions[Len(calc.questions)]
        IN  /\ Len(calc.questions) \in 1..3
            /\ \A i \in 1..Len(calc.questions) :
                  calc.questions[i] \in specific \cup {ClosingQuestion}
            /\ \A i, j \in 1..Len(calc.questions) :
                  i # j => calc.questions[i] # calc.questions[j]
            /\ Cardinality(specific) < 2 =>
                  /\ last = ClosingQuestion
                  /\ Len(calc.questions) = Cardinality(specific) + 1
            /\ Cardinality(specific) >= 2 =>
                  \A i \in 1..Len(calc.questions) : calc.questions[i] \in specific

\* four questions of the middle band applied and three were returned
C18_FourApplyThreeReturned ==
    /\ calc.fn = "suggest"
    /\ calc.done
    /\ Cardinality(TierSpecific(calc.n, calc.text)) = 4
    /\ Len(calc.questions) = 3

\* the progress the engine produces for the next turn of a session when the
\* provider returns the given texts
TurnProgress(session_id, current_report, analysis_text, reply_text) ==
    LET assessment_stage ==
            IF current_report # None
            THEN reports[current_report].assessment_stage
            ELSE "initial"
        result ==
            generate_structured_response(
                memories, session_id, Len(get_chat_messages_by_session(session_id)),
                assessment_stage, {}, analysis_text, reply_text).result
    IN  [ completion_score |-> result.completion_score,
          assessment_stage |-> result.assessment_stage,
          assessment_complete |-> result.assessment_complete,
          collected_data |-> result.collected_data ]

\* C19: the progress of a turn is a function of the transcript: in every
\* state, whatever texts the provider returns for the next turn of a
\* session, the score, stage, completion flag and collected data are the
\* same.
C19_ProgressIsFunctionOfTranscript ==
    \A session_id \in SessionIds :
        \A current_report \in get_patient_report_by_session(session_id, {}) :
            \A a1, a2 \in ProviderAnswers :
                TurnProgress(session_id, current_report, a1.analysis, a1.reply)
                    = TurnProgress(session_id, current_report, a2.analysis, a2.reply)

\* C20: every completion score stored for a session, produced for a turn or
\* returned by a request lies in 0..100.
C20_ScoresWithinRange ==
    /\ \A id \in SessionIds : sessions[id].completion_score \in 0..MaxScore
    /\ resp.completion_score \in 0..MaxScore
    /\ turn.completion_score \in 0..MaxScore

\* C21: the collected data of a turn is extracted from the patient's
\* utterance: in every state, for the next turn of a session, every fact of
\* the utterance is in the turn's collected data, and the collected data
\* holds no fact that only the provider's reply holds.  (The engine hands the
\* utterance to the session memory and the prompts only.)
C21_DataExtractedFromUtterance ==
    \A session_id \in SessionIds :
        \A current_report \in get_patient_report_by_session(session_id, {}) :
            \A message \in PatientUtterances, a \in ProviderAnswers :
                LET said == Facts(extract_structured_data_from_ai(message))
                    replied == Facts(extract_structured_data_from_ai(a.reply))
                    collected ==
                        Facts(TurnProgress(session_id, current_report,
                                           a.analysis, a.reply).collected_data)
                IN  /\ said \subseteq collected
                    /\ collected \cap (replied \ said) = {}

\* the session memories once the patient's utterance of a turn is appended
WithUtterance(session_id) ==
    add_to_memory(memories, memory_key(session_id), "human")

\* the conversation context of the prompt assembled for a turn on a session
PromptContext(session_id) ==
    create_assessment_prompt(WithUtterance(session_id),
                             memory_key(session_id)).conversation_context

\* C22: in every state of an enabled service, the prompt assembled for the
\* next turn on a session holds the last 8 entries of that session's memory
\* (all when fewer), the utterance just appended included.
C22_PromptHoldsSessionWindow ==
    enabled =>
        \A session_id \in SessionIds :
            /\ PromptContext(session_id)
                   = last_messages(WithUtterance(session_id)[memory_key(session_id)])
            /\ PromptContext(session_id)[Len(PromptContext(session_id))] = "human"

\* C23: a send_message that answers 200 has made one call to the provider
\* and has persisted one new patient message followed by one new attendant
\* message for the session.
C23_OneCallTwoMessages ==
    [][ (resp'.op = "send_message" /\ resp'.status = 200) =>
          LET id == resp'.session_id
              n == Len(messages[id])
          IN  /\ Len(messages'[id]) = n + 2
              /\ SubSeq(messages'[id], 1, n) = messages[id]
              /\ ~messages'[id][n + 1].is_doctor
              /\ messages'[id][n + 2].is_doctor
              /\ provider_calls = 1 ]_vars

\* C24: reading a session's transcript back returns the messages in the
\* order in which they were persisted: every order the store may return
\* them in, sorted by timestamp, is the order of persistence, so a patient
\* message comes before the reply generated for it.
C24_ReplayedInPersistedOrder ==
    \A session_id \in SessionIds :
        \A replayed \in order_by_timestamp(messages[session_id]) :
            replayed = messages[session_id]

\* the heading the report prompt gives the section of a column
TitleOf(column) ==
    CASE column = "executive_summary" -> "EXECUTIVE SUMMARY"
      [] column = "symptom_analysis" -> "SYMPTOM ANALYSIS"
      [] column = "risk_assessment" -> "RISK ASSESSMENT"
      [] column = "hearing_assessment_summary" -> "HEARING ASSESSMENT SUMMARY"
      [] column = "recommendations" -> "RECOMMENDATIONS"
      [] column = "follow_up_actions" -> "FOLLOW-UP ACTIONS"

IsTitle(line) == \E c \in SectionColumns : TitleOf(c) = line

\* the lines of a text that follow the line of a title, up to the next title
RECURSIVE BodyFrom(_, _)
BodyFrom(text, i) ==
    IF i > Len(text) \/ IsTitle(text[i]) THEN <<>>
    ELSE <<text[i]>> \o BodyFrom(text, i + 1)

BodyOf(text, title) ==
    BodyFrom(text, 1 + CHOOSE i \in 1..Len(text) : text[i] = title)

\* C25: a final report generated from provider text keeps the text: the
\* report of the session stores, for each section whose heading the text
\* holds with body lines after it, those body lines; a text without heading
\* is stored whole as the executive summary.
C25_ProviderProseKept ==
    [][ ( /\ resp'.op = "generate_final_report"
          /\ resp'.status = 200
          /\ enabled
          /\ "report" \notin raised' ) =>
        \E text \in ReportTexts :
          \E r \in DOMAIN reports' :
            /\ reports'[r].session_id = resp'.session_id
            /\ \A c \in SectionColumns :
                  (Has(text, TitleOf(c)) /\ BodyOf(text, TitleOf(c)) # <<>>) =>
                      reports'[r].sections[c] = BodyOf(text, TitleOf(c))
            /\ (\A i \in 1..Len(text) : ~IsTitle(text[i])) =>
                  reports'[r].sections["executive_summary"] = text ]_vars

\* C26: in every state of an enabled service, the prompt assembled for the
\* next turn on a session (or without session id) shows entries of that
\* session's own memory only: it is empty or the window of its own memory.
C26_PromptFromOwnMemory ==
    enabled =>
        \A session_id \in SessionIds \cup {None} :
            PromptContext(session_id)
                \in { <<>>, last_messages(WithUtterance(session_id)[memory_key(session_id)]) }

\* C27: between calls of generate_structured_response every session memory
\* alternates strictly: a patient entry at every odd place, an attendant
\* entry at every even place, as many of the one as of the other.
C27_MemoryAlternates ==
    \A key \in DOMAIN memories :
        /\ Len(memories[key]) % 2 = 0
        /\ \A i \in 1..Len(memories[key]) :
              memories[key][i] = IF i % 2 = 1 THEN "human" ELSE "ai"

\* C28: a send_message that answers with an error (4xx or 5xx) leaves the
\* transcripts, the reports, the sessions' progress and the session
\* memories as they were.
C28_FailedSendChangesNothing ==
    [][ (resp'.op = "send_message" /\ resp'.status >= 400) =>
            UNCHANGED <<messages, reports, sessions, memories>> ]_vars

\* C29: a session never holds more than 11 persisted messages, also when
\* send_message requests on it overlap.
C29_AtMostElevenMessages ==
    \A session_id \in SessionIds : Len(messages[session_id]) <= MessageLimit + 1

\* C30: in every structured turn result the stage agrees with the score:
\* 'complete' only with a score of 85 or more, 'ready_for_summary' only with
\* a score from 75 to below 85, and assessment_complete exactly when the
\* stage is one of the two.
C30_StageAgreesWithScore ==
    /\ turn.assessment_stage = "complete" =>
          turn.completion_score >= CompleteStageScore
    /\ turn.assessment_stage = "ready_for_summary" =>
          /\ turn.completion_score >= SummaryStageScore
          /\ turn.completion_score < CompleteStageScore
    /\ turn.assessment_complete <=>
          turn.assessment_stage \in {"ready_for_summary", "complete"}
====
